---------------------------- MODULE Spec2Model ----------------------------
(***************************************************************************)
(* LiteDRAM refresher (litedram/core/refresher.py): RefreshTimer,          *)
(* RefreshSequencer and the Refresher FSM, as one synchronous circuit.     *)
(*                                                                         *)
(* One state of the model is one clock cycle: the registers' values, the   *)
(* inputs sampled in that cycle and the combinatorial outputs computed     *)
(* from both.  One step is one clock edge: every `sync` statement of the   *)
(* three modules is applied to the values of the current cycle, the        *)
(* environment picks the next cycle's inputs, and the `comb` outputs are   *)
(* recomputed for the new cycle.                                           *)
(***************************************************************************)
EXTENDS Integers, Naturals, FiniteSets, Sequences, TLC

VARIABLES
    tREFI, tRP, tRFC,       \* settings.timing, fixed at construction
    abits,                  \* settings.geom.addressbits, the width of cmd.a
    standalone,             \* TRUE for a RefreshSequencer / RefreshTimer on its own
    count,                  \* RefreshTimer: count register
    wait, load, load_count, \* RefreshTimer inputs (wait = ~done, load = 0 in the Refresher)
    counter,                \* RefreshSequencer: the timeline's counter register
    seq_done,               \* RefreshSequencer: done register
    cmd_cas, cmd_ras, cmd_we, \* command strobes (registers driven by the sequencer)
    cmd_a, cmd_ba,          \* command address and bank (registers driven by the sequencer)
    fsm,                    \* Refresher FSM state register
    cmd_ready,              \* input: the arbiter's grant
    with_refresh,           \* input: settings.with_refresh (timer.reset = ~with_refresh)
    start,                  \* sequencer.start (comb output of the FSM, or input)
    cmd_valid, cmd_last,    \* comb outputs of the FSM
    since_start,            \* history: steps since the last accepted trigger
    since_pre, since_ar,    \* history: steps since the last Precharge All / Auto Refresh
    tprev,                  \* history: steps since the last timer pulse
    behind,                 \* history: timer pulses minus completed cycles
    taken,                  \* history: some timer pulse has been taken in IDLE
    cyc_grants, cyc_lasts,  \* history: grants / lasts since the last pulse taken in IDLE
    state_steps,            \* history: consecutive steps spent in the current FSM state
    load_left,              \* history: steps left of an adopted load (-1: none)
    since_taken,            \* history: steps since the last pulse taken, if prompt
    ref_count,              \* history: a free-running timer fed by with_refresh alone
    ignored_start           \* history: start was asserted during the current run

config  == <<tREFI, tRP, tRFC, abits, standalone>>
timerv  == <<count, wait, load, load_count>>
seqv    == <<counter, seq_done, cmd_cas, cmd_ras, cmd_we, cmd_a, cmd_ba>>
fsmv    == <<fsm, cmd_valid, cmd_last>>
histv   == <<since_start, since_pre, since_ar, tprev, behind, taken, cyc_grants, cyc_lasts, state_steps,
             load_left, since_taken, ref_count, ignored_start>>
vars    == <<config, timerv, seqv, fsmv, cmd_ready, with_refresh, start, histv>>

---------------------------------------------------------------------------
(* Bounds of the model. *)
MaxTREFI  == 6
MaxTRP    == 3
MaxTRFC   == 3
MaxBehind == 2
MaxABits  == 12

\* The address bit that selects all banks: cmd.a.eq(2**10).
A10 == 10

Min(a, b) == IF a < b THEN a ELSE b
Max(a, b) == IF a > b THEN a ELSE b

\* Horizons at which the step-counting history variables saturate: one more
\* than the largest value any claim compares them with.
SeqHorizon   == MaxTRP + MaxTRFC + 3
PreHorizon   == MaxTRP + 1
ArHorizon    == MaxTRFC + 1
TimerHorizon == MaxTREFI + 2
TakenHorizon == Max(MaxTRP + MaxTRFC + 3, MaxTREFI) + 1

---------------------------------------------------------------------------
(* migen helpers *)

RECURSIVE BitLength(_)
BitLength(n) == IF n = 0 THEN 0 ELSE 1 + BitLength(n \div 2)

\* bits_for(n): the width of an unsigned Signal able to hold n.
BitsFor(n) == IF n = 0 THEN 1 ELSE BitLength(n)

\* 2**n
Pow2(n) == 2 ^ n

---------------------------------------------------------------------------
(* RefreshTimer *)

\* comb: done.eq(count == 0)
TimerDone == count = 0

\* Mutant: a load is adopted whatever its value (the comparison is missing).
TimerSyncAnyLoad(w, l, lc, reset) ==
    IF reset THEN tREFI - 1
    ELSE IF w
         THEN IF ~TimerDone
              THEN IF l THEN lc ELSE (count - 1) % Pow2(BitsFor(tREFI))
              ELSE count
         ELSE tREFI - 1

\* Mutant: the count is decremented at 0 too (the If(~done) is missing).
TimerSyncNoDoneGuard(w, l, lc, reset) ==
    IF reset THEN tREFI - 1
    ELSE IF w
         THEN IF l /\ lc < count
              THEN lc
              ELSE (count - 1) % Pow2(BitsFor(tREFI))
         ELSE tREFI - 1

\* Mutant: the Else branch that reloads the count is missing.
TimerSyncNoReload(w, l, lc, reset) ==
    IF reset THEN tREFI - 1
    ELSE IF w /\ ~TimerDone
         THEN IF l /\ lc < count
              THEN lc
              ELSE (count - 1) % Pow2(BitsFor(tREFI))
         ELSE count

\* The sync block of RefreshTimer under ResetInserter: the next value of
\* count, given this cycle's wait (w), load (l), load_count (lc) and reset.
TimerSync(w, l, lc, reset) ==
    IF reset THEN tREFI - 1
    ELSE IF w
         THEN IF ~TimerDone
              THEN IF l /\ lc < count
                   THEN lc
                   ELSE (count - 1) % Pow2(BitsFor(tREFI))
              ELSE count
         ELSE tREFI - 1

\* Mutant: the timer is also held in reset while a refresh cycle is under way.
TimerResetWhileBusy == ~with_refresh \/ fsm # "IDLE"

\* Refresher wiring: timer.wait = ~timer.done, timer.reset = ~with_refresh;
\* load and load_count are left undriven (0).
TimerWait  == ~TimerDone
TimerReset == ~with_refresh
TimerStep  ==
    /\ count' = TimerSync(TimerWait, FALSE, 0, TimerReset)
    /\ wait' = (count' # 0)
    /\ load' = FALSE /\ load_count' = 0

---------------------------------------------------------------------------
(* RefreshSequencer: timeline(start, [(0, ..), (trp, ..), (trp + trfc, ..)]) *)

LastEvent == tRP + tRFC

\* The timeline inserts a counter reset unless lastevent+1 is a power of two,
\* in which case the counter (bits_for(lastevent) bits) overflows to 0.
NeedsCounterReset == Pow2(BitLength(LastEvent + 1) - 1) # LastEvent + 1

Trigger == start /\ counter = 0

\* Mutant: the trigger is tested before the running counter (If/Elif
\* swapped), so a start during a run restarts it.
CounterNextRestart ==
    IF NeedsCounterReset /\ counter = LastEvent THEN 0
    ELSE IF start THEN 1
    ELSE IF counter # 0 THEN (counter + 1) % Pow2(BitsFor(LastEvent))
    ELSE counter

CounterNext ==
    IF NeedsCounterReset /\ counter = LastEvent THEN 0
    ELSE IF counter # 0 THEN (counter + 1) % Pow2(BitsFor(LastEvent))
    ELSE IF start THEN 1
    ELSE counter

\* Mutant: the done event is scheduled at trfc instead of trp + trfc.
EvDoneAfterTRFC == counter = tRFC

\* Mutant: trp and trfc are swapped, the refresh event is scheduled at trfc.
EvRefreshAtTRFC == counter = tRFC

\* The conditions of the three timeline events in the current cycle.
EvPrecharge == Trigger
EvRefresh   == counter = tRP
EvDone      == counter = LastEvent

\* cmd.a.eq(2**10) on a Signal of abits bits, cmd.ba.eq(0).
AllBanks == Pow2(A10) % Pow2(abits)
AddressStep == cmd_a' = AllBanks /\ cmd_ba' = 0

\* Mutant: the address is driven with the Auto Refresh command only.
SequencerStepLateAddress ==
    /\ cmd_a' = (IF EvRefresh THEN AllBanks ELSE cmd_a) /\ cmd_ba' = 0
    /\ counter'  = CounterNext
    /\ cmd_cas'  = EvRefresh
    /\ cmd_ras'  = (EvPrecharge \/ EvRefresh)
    /\ cmd_we'   = EvPrecharge
    /\ seq_done' = EvDone

\* Mutant: the strobes are not cleared by default, so a strobe once set stays.
SequencerStepNoClear ==
    /\ AddressStep
    /\ counter'  = CounterNext
    /\ cmd_cas'  = (cmd_cas \/ EvRefresh)
    /\ cmd_ras'  = (cmd_ras \/ EvPrecharge \/ EvRefresh)
    /\ cmd_we'   = (cmd_we \/ EvPrecharge)
    /\ seq_done' = EvDone

SequencerStep ==
    /\ AddressStep
    /\ counter'  = CounterNext
    /\ cmd_cas'  = EvRefresh
    /\ cmd_ras'  = (EvPrecharge \/ EvRefresh)
    /\ cmd_we'   = EvPrecharge
    /\ seq_done' = EvDone

---------------------------------------------------------------------------
(* Refresher FSM *)

\* Mutant: the request is withdrawn when refresh is disabled while waiting.
FsmNextWithdraws ==
    CASE fsm = "IDLE" ->
            IF TimerDone THEN "WAIT-CONTROLLER-GRANT" ELSE "IDLE"
      [] fsm = "WAIT-CONTROLLER-GRANT" ->
            IF cmd_ready THEN "WAIT-SEQUENCER"
            ELSE IF with_refresh THEN "WAIT-CONTROLLER-GRANT" ELSE "IDLE"
      [] fsm = "WAIT-SEQUENCER" ->
            IF seq_done THEN "IDLE" ELSE "WAIT-SEQUENCER"

\* Mutant: WAIT-SEQUENCER never returns to IDLE.
FsmNextStuck ==
    CASE fsm = "IDLE" ->
            IF TimerDone THEN "WAIT-CONTROLLER-GRANT" ELSE "IDLE"
      [] fsm = "WAIT-CONTROLLER-GRANT" ->
            IF cmd_ready THEN "WAIT-SEQUENCER" ELSE "WAIT-CONTROLLER-GRANT"
      [] fsm = "WAIT-SEQUENCER" -> "WAIT-SEQUENCER"

\* Mutant: WAIT-CONTROLLER-GRANT moves on without looking at cmd.ready.
FsmNextNoGrant ==
    CASE fsm = "IDLE" ->
            IF TimerDone THEN "WAIT-CONTROLLER-GRANT" ELSE "IDLE"
      [] fsm = "WAIT-CONTROLLER-GRANT" -> "WAIT-SEQUENCER"
      [] fsm = "WAIT-SEQUENCER" ->
            IF seq_done THEN "IDLE" ELSE "WAIT-SEQUENCER"

FsmNext ==
    CASE fsm = "IDLE" ->
            IF TimerDone THEN "WAIT-CONTROLLER-GRANT" ELSE "IDLE"
      [] fsm = "WAIT-CONTROLLER-GRANT" ->
            IF cmd_ready THEN "WAIT-SEQUENCER" ELSE "WAIT-CONTROLLER-GRANT"
      [] fsm = "WAIT-SEQUENCER" ->
            IF seq_done THEN "IDLE" ELSE "WAIT-SEQUENCER"

\* Mutants: cmd.valid without the Else (held on the done step too), cmd.last
\* outside the If (asserted all through WAIT-SEQUENCER), sequencer.start
\* outside the If (asserted before the grant).
CmdValidNoElse(f, sd) == f = "WAIT-CONTROLLER-GRANT" \/ f = "WAIT-SEQUENCER"
CmdLastNoIf(f, sd) == f = "WAIT-SEQUENCER"
SeqStartNoIf(f, rdy) == f = "WAIT-CONTROLLER-GRANT"

\* The comb outputs of the FSM in a cycle with state f, sequencer.done sd and
\* cmd.ready rdy.
CmdValid(f, sd) ==
    \/ f = "WAIT-CONTROLLER-GRANT"
    \/ f = "WAIT-SEQUENCER" /\ ~sd
CmdLast(f, sd)  == f = "WAIT-SEQUENCER" /\ sd
SeqStart(f, rdy) == f = "WAIT-CONTROLLER-GRANT" /\ rdy

FsmStep ==
    /\ fsm' = FsmNext
    /\ cmd_valid' = CmdValid(fsm', seq_done')
    /\ cmd_last'  = CmdLast(fsm', seq_done')
    /\ start'     = SeqStart(fsm', cmd_ready')

---------------------------------------------------------------------------
(* History variables: observers of the run, read by no register. *)

Grant == fsm = "WAIT-CONTROLLER-GRANT" /\ cmd_valid /\ cmd_ready
PulseTaken == fsm = "IDLE" /\ TimerDone

NoStrobe == ~cmd_cas /\ ~cmd_ras /\ ~cmd_we
PrechargeAll == cmd_ras /\ cmd_we /\ ~cmd_cas
AutoRefresh  == cmd_cas /\ cmd_ras /\ ~cmd_we

SeqHistory ==
    /\ since_start' = IF Trigger THEN 1 ELSE Min(since_start + 1, SeqHorizon)
    /\ since_pre' = IF PrechargeAll THEN 1 ELSE Min(since_pre + 1, PreHorizon)
    /\ since_ar'  = IF AutoRefresh THEN 1 ELSE Min(since_ar + 1, ArHorizon)
    /\ ignored_start' = IF Trigger THEN FALSE
                        ELSE (ignored_start \/ (start /\ counter # 0))

TimerHistory ==
    tprev' = IF TimerDone THEN 1 ELSE Min(tprev + 1, TimerHorizon)

\* A load is adopted: the timer is waiting with count # 0 and load_count is
\* smaller than count.  load_left then counts down on every further step of
\* undisturbed waiting, and is dropped by a disable or once it has run out.
Adopt == wait /\ ~TimerReset /\ count # 0 /\ load /\ load_count < count
LoadHistory ==
    load_left' = IF Adopt THEN load_count
                 ELSE IF load_left > 0 /\ wait /\ ~TimerReset THEN load_left - 1
                 ELSE -1

\* since_taken counts the steps since the last pulse taken in IDLE for as
\* long as refresh stays enabled and no request is kept waiting for its grant.
GrantDelayed == fsm = "WAIT-CONTROLLER-GRANT" /\ ~cmd_ready
FsmHistory ==
    /\ behind' = Max(0, Min(MaxBehind,
                   behind + (IF TimerDone THEN 1 ELSE 0)
                          - (IF cmd_last THEN 1 ELSE 0)))
    /\ taken' = (taken \/ PulseTaken)
    /\ cyc_grants' = IF PulseTaken THEN 0
                     ELSE IF Grant THEN Min(cyc_grants + 1, 2) ELSE cyc_grants
    /\ cyc_lasts'  = IF PulseTaken THEN 0
                     ELSE IF cmd_last THEN Min(cyc_lasts + 1, 2) ELSE cyc_lasts
    /\ state_steps' = IF fsm' = fsm THEN Min(state_steps + 1, SeqHorizon) ELSE 1
    /\ since_taken' = IF PulseTaken THEN 1
                      ELSE IF GrantDelayed \/ ~with_refresh THEN TakenHorizon
                      ELSE Min(since_taken + 1, TakenHorizon)
    /\ ref_count' = IF ~with_refresh \/ ref_count = 0 THEN tREFI - 1
                    ELSE ref_count - 1

---------------------------------------------------------------------------
(* The Refresher *)

Init ==
    /\ tREFI \in 1..MaxTREFI /\ tRP \in 1..MaxTRP /\ tRFC \in 1..MaxTRFC
    /\ abits = MaxABits /\ standalone = FALSE
    /\ count = tREFI - 1
    /\ wait = TimerWait /\ load = FALSE /\ load_count = 0
    /\ counter = 0 /\ seq_done = FALSE
    /\ cmd_cas = FALSE /\ cmd_ras = FALSE /\ cmd_we = FALSE
    /\ cmd_a = 0 /\ cmd_ba = 0
    /\ fsm = "IDLE"
    /\ cmd_ready \in BOOLEAN /\ with_refresh \in BOOLEAN
    /\ cmd_valid = CmdValid(fsm, seq_done)
    /\ cmd_last  = CmdLast(fsm, seq_done)
    /\ start     = SeqStart(fsm, cmd_ready)
    /\ since_start = SeqHorizon /\ since_pre = PreHorizon /\ since_ar = ArHorizon
    /\ tprev = 1 /\ behind = 0
    /\ taken = FALSE /\ cyc_grants = 0 /\ cyc_lasts = 0 /\ state_steps = 1
    /\ load_left = -1 /\ since_taken = TakenHorizon /\ ref_count = tREFI - 1
    /\ ignored_start = FALSE

\* One clock edge of the Refresher; the arbiter and the refresh enable are free.
Clock ==
    /\ cmd_ready' \in BOOLEAN
    /\ with_refresh' \in BOOLEAN
    /\ TimerStep /\ SequencerStep /\ FsmStep
    /\ SeqHistory /\ TimerHistory /\ FsmHistory /\ LoadHistory
    /\ UNCHANGED config

Next == Clock

Spec == Init /\ [][Next]_vars

\* The Refresher with refresh enabled throughout (timer.reset never asserted).
InitEnabled == Init /\ with_refresh
NextEnabled == Clock /\ with_refresh'
SpecEnabled == InitEnabled /\ [][NextEnabled]_vars

\* The Refresher as built: settings.with_refresh is fixed at construction, the
\* clock keeps ticking, and the arbiter is fair: it does not leave cmd.valid
\* unanswered forever.
ClockFixed == Clock /\ with_refresh' = with_refresh
ArbiterGrants == ClockFixed /\ cmd_valid' /\ cmd_ready'
NextFixed == ClockFixed
SpecFair ==
    /\ Init /\ [][NextFixed]_vars
    /\ WF_vars(NextFixed) /\ WF_vars(ArbiterGrants)

\* The Refresher with refresh enabled throughout and an arbiter that asserts
\* cmd.ready on the first step of every request.
InitPrompt == Init /\ with_refresh
NextPrompt ==
    Clock /\ with_refresh' /\ (fsm' = "WAIT-CONTROLLER-GRANT" => cmd_ready')
SpecPrompt == InitPrompt /\ [][NextPrompt]_vars

---------------------------------------------------------------------------
(* A RefreshSequencer on its own: start is a free input. *)

InitSeq ==
    /\ tREFI = 1 /\ tRP \in 1..MaxTRP /\ tRFC \in 1..MaxTRFC
    /\ abits \in A10..MaxABits /\ standalone = TRUE
    /\ count = 0 /\ wait = FALSE /\ load = FALSE /\ load_count = 0
    /\ counter = 0 /\ seq_done = FALSE
    /\ cmd_cas = FALSE /\ cmd_ras = FALSE /\ cmd_we = FALSE
    /\ cmd_a = 0 /\ cmd_ba = 0
    /\ fsm = "IDLE" /\ cmd_ready = FALSE /\ with_refresh = FALSE
    /\ cmd_valid = FALSE /\ cmd_last = FALSE
    /\ start \in BOOLEAN
    /\ since_start = SeqHorizon /\ since_pre = PreHorizon /\ since_ar = ArHorizon
    /\ tprev = 1 /\ behind = 0
    /\ taken = FALSE /\ cyc_grants = 0 /\ cyc_lasts = 0 /\ state_steps = 1
    /\ load_left = -1 /\ since_taken = TakenHorizon /\ ref_count = tREFI - 1
    /\ ignored_start = FALSE

ClockSeq ==
    /\ start' \in BOOLEAN
    /\ SequencerStep
    /\ SeqHistory
    /\ UNCHANGED <<config, timerv, fsmv, cmd_ready, with_refresh,
                   tprev, behind, taken, cyc_grants, cyc_lasts, state_steps,
                   load_left, since_taken, ref_count>>

NextSeq == ClockSeq
SpecSeq == InitSeq /\ [][NextSeq]_vars

---------------------------------------------------------------------------
(* A RefreshTimer on its own (under ResetInserter): wait, load, load_count
   and reset are free inputs. *)

LoadCounts == 0..(Pow2(BitsFor(tREFI)) - 1)

InitTimer ==
    /\ tREFI \in 1..MaxTREFI /\ tRP = 1 /\ tRFC = 1 /\ abits = MaxABits
    /\ standalone = TRUE
    /\ count = tREFI - 1
    /\ wait \in BOOLEAN /\ load \in BOOLEAN /\ load_count \in LoadCounts
    /\ with_refresh \in BOOLEAN
    /\ counter = 0 /\ seq_done = FALSE
    /\ cmd_cas = FALSE /\ cmd_ras = FALSE /\ cmd_we = FALSE
    /\ cmd_a = 0 /\ cmd_ba = 0
    /\ fsm = "IDLE" /\ cmd_ready = FALSE /\ start = FALSE
    /\ cmd_valid = FALSE /\ cmd_last = FALSE
    /\ since_start = SeqHorizon /\ since_pre = PreHorizon /\ since_ar = ArHorizon
    /\ tprev = 1 /\ behind = 0
    /\ taken = FALSE /\ cyc_grants = 0 /\ cyc_lasts = 0 /\ state_steps = 1
    /\ load_left = -1 /\ since_taken = TakenHorizon /\ ref_count = tREFI - 1
    /\ ignored_start = FALSE

ClockTimer ==
    /\ count' = TimerSync(wait, load, load_count, TimerReset)
    /\ wait' \in BOOLEAN /\ load' \in BOOLEAN /\ load_count' \in LoadCounts
    /\ with_refresh' \in BOOLEAN
    /\ TimerHistory /\ LoadHistory
    /\ UNCHANGED <<config, seqv, fsmv, cmd_ready, start,
                   since_start, since_pre, since_ar,
                   behind, taken, cyc_grants, cyc_lasts, state_steps,
                   since_taken, ref_count, ignored_start>>

NextTimer == ClockTimer
SpecTimer == InitTimer /\ [][NextTimer]_vars

---------------------------------------------------------------------------
(* The Refresher, or a RefreshSequencer on its own. *)

InitBoth == Init \/ InitSeq
NextBoth ==
    \/ ~standalone /\ Clock
    \/ standalone /\ ClockSeq
SpecBoth == InitBoth /\ [][NextBoth]_vars

---------------------------------------------------------------------------
(* C1 *)

\* C1 (as stated): whatever the arbiter does, the number of completed refresh
\* cycles (cmd.last) never falls behind the number of timer pulses by more
\* than the one in progress: no pulse is lost.  (Stated for tREFI > 1, where
\* timer.done is a pulse; with tREFI = 1 it is asserted on every step.)
C1_NoPulseLost == tREFI > 1 => behind <= 1

\* C1 (amended): every timer pulse that the FSM takes in IDLE is followed by
\* exactly one grant and exactly one cmd.last before the FSM is back in IDLE:
\* none while waiting for the grant, one grant and no last while the
\* sequencer runs, one of each once back in IDLE.  (Pulses that fall outside
\* IDLE are not taken.)
C1_OneCyclePerTakenPulse ==
    /\ fsm = "IDLE" =>
          IF taken THEN cyc_grants = 1 /\ cyc_lasts = 1
                   ELSE cyc_grants = 0 /\ cyc_lasts = 0
    /\ fsm = "WAIT-CONTROLLER-GRANT" => taken /\ cyc_grants = 0 /\ cyc_lasts = 0
    /\ fsm = "WAIT-SEQUENCER" => taken /\ cyc_grants = 1 /\ cyc_lasts = 0

\* A cycle completed after the arbiter withheld cmd.ready for a while.
C1_Witness ==
    /\ fsm = "IDLE" /\ taken /\ cyc_grants = 1 /\ cyc_lasts = 1
    /\ state_steps = 1 /\ tREFI > 1 /\ ~with_refresh

---------------------------------------------------------------------------
(* C2 *)

\* C2: with refresh enabled throughout and the Refresher's wiring of wait,
\* the timer pulses exactly once in every tREFI steps: done is asserted
\* exactly when tREFI steps have passed since the previous pulse (power-on
\* counts as the step after a pulse, count being loaded with tREFI-1), and
\* the step after a pulse (tprev = 1) finds count reloaded to tREFI-1.
C2_PeriodicPulse ==
    /\ tprev \in 1..tREFI
    /\ TimerDone <=> tprev = tREFI
    /\ tprev = 1 => count = tREFI - 1

\* A pulse that follows an earlier pulse, while the FSM is busy.
C2_Witness ==
    /\ TimerDone /\ taken /\ tREFI > 1 /\ fsm = "WAIT-SEQUENCER"

---------------------------------------------------------------------------
(* C3 *)

\* C3 (as stated): done is asserted exactly at the step tRP + tRFC steps
\* after the trigger step (start asserted with the sequencer idle), and at
\* no other step.
C3_DoneAtLastEvent == seq_done <=> since_start = tRP + tRFC

\* C3 (amended): done is a register written when the timeline reaches its
\* last event, so it is asserted exactly at the step tRP + tRFC + 1 steps
\* after the trigger step, for that one step, and at no other step.
C3_DoneOneStepLater == seq_done <=> since_start = tRP + tRFC + 1

\* done asserted while start is low (no new run begins on that step).
C3_Witness == seq_done /\ ~start /\ since_start = tRP + tRFC + 1

---------------------------------------------------------------------------
(* C4 *)

\* C4 (as stated): {ras,we} are asserted on the trigger step only (offset 0),
\* {cas,ras} at offset tRP only, and no strobe at any other step.
C4_StrobesAtEventOffsets ==
    /\ PrechargeAll <=> Trigger
    /\ AutoRefresh <=> since_start = tRP
    /\ (~Trigger /\ since_start # tRP) => NoStrobe

\* C4 (amended): the strobes are registers, so {ras,we} are asserted at
\* offset 1 only, {cas,ras} at offset tRP + 1 only, no strobe is asserted at
\* any other step, and done is asserted at no step other than offset
\* tRP + tRFC + 1; a sequencer that was never triggered asserts nothing.
C4_StrobesOneStepLater ==
    /\ PrechargeAll <=> since_start = 1
    /\ AutoRefresh <=> since_start = tRP + 1
    /\ since_start \notin {1, tRP + 1} => NoStrobe
    /\ since_start # tRP + tRFC + 1 => ~seq_done

\* The Auto Refresh strobes of a run with tRP > 1.
C4_Witness == AutoRefresh /\ tRP > 1 /\ since_start = tRP + 1

---------------------------------------------------------------------------
(* C5 *)

\* C5: cmd.valid is asserted exactly when the FSM is in WAIT-CONTROLLER-GRANT,
\* or in WAIT-SEQUENCER on a step where sequencer.done is not asserted; it is
\* never asserted in IDLE.
C5_ValidIffWaiting ==
    /\ cmd_valid <=> \/ fsm = "WAIT-CONTROLLER-GRANT"
                     \/ fsm = "WAIT-SEQUENCER" /\ ~seq_done
    /\ fsm = "IDLE" => ~cmd_valid

\* The done step of WAIT-SEQUENCER, where cmd.valid has dropped.
C5_Witness == fsm = "WAIT-SEQUENCER" /\ seq_done /\ ~cmd_valid

---------------------------------------------------------------------------
(* C6 *)

\* C6: cmd.last equals sequencer.done in every state; it is asserted once per
\* cycle (never twice between two pulses taken in IDLE, and once by the time
\* the FSM is back in IDLE), for one step, and the FSM is in IDLE on the step
\* after it.
C6_LastOncePerCycle ==
    /\ [](/\ cmd_last <=> seq_done
          /\ cyc_lasts <= 1
          /\ (fsm = "IDLE" /\ taken) => cyc_lasts = 1)
    /\ [][cmd_last => (fsm' = "IDLE" /\ ~cmd_last')]_vars

\* The step after cmd.last: back in IDLE with the cycle's one last counted.
C6_Witness ==
    fsm = "IDLE" /\ state_steps = 1 /\ taken /\ cyc_lasts = 1 /\ ~cmd_last

---------------------------------------------------------------------------
(* C7 *)

Idle == fsm = "IDLE"

\* Every pulse taken in IDLE leads to a grant, the grant to cmd.last, and
\* cmd.last to IDLE; IDLE recurs forever; every state has a successor.
C7_Progress ==
    /\ PulseTaken ~> Grant
    /\ Grant ~> cmd_last
    /\ cmd_last ~> Idle
    /\ []<>Idle
    /\ [](ENABLED NextFixed)

\* C7 (as stated): under a fair arbiter alone, every pulse taken in IDLE is
\* served, and IDLE and cmd.last both recur infinitely often.
C7_LastRecurs == C7_Progress /\ []<>cmd_last

\* C7 (amended): under a fair arbiter every pulse taken in IDLE is served, no
\* state is terminal and IDLE recurs infinitely often; cmd.last recurs
\* infinitely often provided refresh is enabled (settings.with_refresh).
C7_LastRecursIfEnabled == C7_Progress /\ []<>(cmd_last \/ ~with_refresh)

\* A cycle served after the arbiter kept the request waiting.
C7_Witness ==
    cmd_last /\ with_refresh /\ tREFI > 1 /\ behind = 2

---------------------------------------------------------------------------
(* C8 *)

\* C8 (as stated): the FSM leaves WAIT-SEQUENCER after exactly tRP + tRFC
\* steps there, whatever cmd.ready, the timer and the refresh enable do.
C8_SequenceLastsTRPplusTRFC ==
    [][(fsm = "WAIT-SEQUENCER" /\ fsm' # "WAIT-SEQUENCER")
          => (fsm' = "IDLE" /\ state_steps = tRP + tRFC)]_vars

\* C8 (amended): the FSM stays in WAIT-SEQUENCER for exactly tRP + tRFC + 1
\* steps (the last being the step on which the done register is seen) and
\* then returns to IDLE, whatever cmd.ready, the timer and the refresh enable
\* do; it never stays longer.
C8_SequenceLastsOneMore ==
    /\ [](fsm = "WAIT-SEQUENCER" => state_steps <= tRP + tRFC + 1)
    /\ [][fsm = "WAIT-SEQUENCER" =>
            IF state_steps = tRP + tRFC + 1
            THEN fsm' = "IDLE"
            ELSE fsm' = "WAIT-SEQUENCER"]_vars

\* The last step of a sequence during which refresh is disabled and the
\* arbiter has dropped cmd.ready.
C8_Witness ==
    /\ fsm = "WAIT-SEQUENCER" /\ state_steps = tRP + tRFC + 1
    /\ ~with_refresh /\ ~cmd_ready /\ tREFI > 1

---------------------------------------------------------------------------
(* C9 *)

\* C9: in WAIT-CONTROLLER-GRANT cmd.valid is asserted on every step, and the
\* FSM stays there (cmd.valid still asserted) until the first step with
\* cmd.ready, on which it moves to WAIT-SEQUENCER and nowhere else, whatever
\* the timer and the refresh enable do.
C9_RequestHeldUntilGrant ==
    /\ [](fsm = "WAIT-CONTROLLER-GRANT" => cmd_valid)
    /\ [][fsm = "WAIT-CONTROLLER-GRANT" =>
            IF cmd_ready
            THEN fsm' = "WAIT-SEQUENCER"
            ELSE fsm' = "WAIT-CONTROLLER-GRANT" /\ cmd_valid']_vars

\* Third step of waiting for the grant, with refresh disabled meanwhile.
C9_Witness ==
    /\ fsm = "WAIT-CONTROLLER-GRANT" /\ state_steps >= 3
    /\ cmd_valid /\ ~cmd_ready /\ ~with_refresh /\ tREFI > 1

---------------------------------------------------------------------------
(* C10 *)

\* C10: the FSM enters WAIT-SEQUENCER only on the step after a grant (a step
\* in WAIT-CONTROLLER-GRANT with cmd.valid and cmd.ready), and
\* sequencer.start is asserted on exactly the grant steps.
C10_SequenceOnlyAfterGrant ==
    /\ [](start <=> Grant)
    /\ [][(fsm' = "WAIT-SEQUENCER" /\ fsm # "WAIT-SEQUENCER") => Grant]_vars

\* The first step in WAIT-SEQUENCER, one step after the trigger.
C10_Witness ==
    fsm = "WAIT-SEQUENCER" /\ state_steps = 1 /\ since_start = 1 /\ ~start

---------------------------------------------------------------------------
(* C12 *)

---------------------------------------------------------------------------
(* C13 *)

Disabled == ~wait \/ TimerReset

\* C13 (as stated): on every step in which the timer is disabled, count is
\* tREFI-1 and done is not asserted.  (Stated for tREFI > 1; with tREFI = 1
\* the count is always 0 and done is asserted on every step.)
C13_PinnedWhileDisabled ==
    tREFI > 1 => (Disabled => (count = tREFI - 1 /\ ~TimerDone))

\* C13 (amended): count is a register, so a disable shows one step later: on
\* the step after every step in which the timer is disabled, count is
\* tREFI-1 whatever it was before, and done is not asserted if tREFI > 1.
C13_PinnedAfterDisabled ==
    [][Disabled => (count' = tREFI - 1 /\ (tREFI > 1 => count' # 0))]_vars

\* Disabled again after a disable that cut a countdown short: count is back
\* at tREFI-1 although the last pulse is more than one step away.
C13_Witness ==
    /\ Disabled /\ count = tREFI - 1 /\ tREFI > 2
    /\ tprev > 1 /\ tprev < TimerHorizon

---------------------------------------------------------------------------
(* C14 *)

\* C14: for every sequence of wait, load, load_count and reset inputs the
\* count stays within 0..tREFI-1 (it never wraps below 0), and done is
\* asserted exactly when count is 0.
C14_CountInRange ==
    /\ count \in 0..(tREFI - 1)
    /\ TimerDone <=> count = 0

\* count held at 0 over a step with wait asserted and the largest load_count.
C14_Witness ==
    /\ TimerDone /\ tprev = 1 /\ tREFI > 1
    /\ wait /\ load /\ load_count = Pow2(BitsFor(tREFI)) - 1

---------------------------------------------------------------------------
(* C15 *)

\* C15: on every step with a strobe asserted, cmd.a is 2^10
\* (only the all-banks bit set) and cmd.ba is 0, for every address width.
C15_AllBanksAddress == ~NoStrobe => (cmd_a = Pow2(A10) /\ cmd_ba = 0)

\* What the code guarantees: on every step with a strobe asserted, cmd.ba is
\* 0 and cmd.a is 2^10 if cmd.a is at least 11 bits wide; a narrower cmd.a
\* has no bit 10 and reads 0.  Either way the value does not depend on the
\* sequencer's elapsed count.
C15_AllBanksAddressIfWide ==
    ~NoStrobe => /\ cmd_a = (IF abits > A10 THEN Pow2(A10) ELSE 0)
                 /\ cmd_ba = 0

\* The Precharge All of a run on an 11-bit address.
C15_Witness ==
    PrechargeAll /\ since_start = 1 /\ abits = A10 + 1 /\ cmd_a = Pow2(A10)

---------------------------------------------------------------------------
(* C16 *)

\* C16: within a run, the Auto Refresh strobes come exactly tRP steps after
\* the Precharge All strobes, done comes exactly tRFC steps after the Auto
\* Refresh strobes, and no strobe is asserted on the steps in between (nor
\* in any pattern other than these two).
C16_CommandSpacing ==
    /\ AutoRefresh <=> since_pre = tRP
    /\ seq_done <=> since_ar = tRFC
    /\ (since_pre < tRP \/ since_ar <= tRFC) => NoStrobe
    /\ NoStrobe \/ PrechargeAll \/ AutoRefresh

\* done at the end of a run with idle steps in both waits.
C16_Witness ==
    /\ seq_done /\ since_ar = tRFC /\ since_start = tRP + tRFC + 1
    /\ tRP > 1 /\ tRFC > 1

---------------------------------------------------------------------------
(* C11 *)

\* since_taken = k: the state is k steps after the step on which the timer's
\* pulse was taken in IDLE (step T); PulseTaken holds on step T itself.  With
\* refresh enabled throughout and a prompt arbiter the count is never cut off.

\* C11 (as stated): with refresh enabled and a prompt arbiter, a pulse taken
\* on step T has cmd.valid with the grant and the Precharge All strobes on
\* step T, the Auto Refresh strobes on step T+tRP, done and cmd.last on step
\* T+tRP+tRFC, the FSM in IDLE on step T+tRP+tRFC+1, and the next pulse on
\* step T+tREFI (read for a refresh interval of more than one step).
C11_PromptTiming ==
    tREFI > 1 =>
        /\ PulseTaken => (cmd_valid /\ cmd_ready /\ PrechargeAll)
        /\ (taken /\ since_taken = tRP) => AutoRefresh
        /\ (taken /\ since_taken = tRP + tRFC) => (seq_done /\ cmd_last)
        /\ (taken /\ since_taken = tRP + tRFC + 1) => fsm = "IDLE"
        /\ (taken /\ since_taken = tREFI) => TimerDone

\* C11 (amended): with refresh enabled and a prompt arbiter, a pulse taken
\* on step T has cmd.valid with the grant on step T+1, the Precharge All
\* strobes on step T+2, the Auto Refresh strobes on step T+2+tRP, done and
\* cmd.last on step T+2+tRP+tRFC, the FSM back in IDLE on step T+3+tRP+tRFC,
\* and the timer's next pulse on step T+tREFI; the grant, the strobes, done
\* and cmd.last occur on no other step.
C11_PromptTimingRegistered ==
    /\ PulseTaken => (~cmd_valid /\ NoStrobe)
    /\ Grant <=> (taken /\ since_taken = 1)
    /\ PrechargeAll <=> (taken /\ since_taken = 2)
    /\ AutoRefresh <=> (taken /\ since_taken = 2 + tRP)
    /\ seq_done <=> (taken /\ since_taken = 2 + tRP + tRFC)
    /\ cmd_last <=> seq_done
    /\ NoStrobe \/ PrechargeAll \/ AutoRefresh
    /\ (taken /\ since_taken = 3 + tRP + tRFC) => fsm = "IDLE"
    /\ (taken /\ since_taken = tREFI) => TimerDone

\* cmd.last of a cycle that fits into the refresh interval with room to spare.
C11_Witness ==
    /\ cmd_last /\ since_taken = 2 + tRP + tRFC
    /\ tREFI >= 3 + tRP + tRFC /\ tRP > 1

---------------------------------------------------------------------------
(* C17 *)

\* ref_count is computed from tREFI and the with_refresh inputs alone: it
\* reloads tREFI-1 when refresh is disabled or when it is 0, and decrements
\* by 1 otherwise.

\* C17: the timer's count (hence its done pulses) is a function of tREFI and
\* the with_refresh inputs alone: in every state of the Refresher, whatever
\* cmd.ready was and wherever the FSM stands, count equals ref_count.
C17_TimerIgnoresArbiter == count = ref_count /\ (TimerDone <=> ref_count = 0)

\* A second pulse while the first is still waiting for its grant.
C17_Witness ==
    /\ TimerDone /\ fsm = "WAIT-CONTROLLER-GRANT" /\ state_steps >= 2
    /\ ~cmd_ready /\ tREFI > 2 /\ tprev = tREFI

---------------------------------------------------------------------------
(* C18 *)

\* C18: in the Refresher a strobe (cmd.cas, cmd.ras or cmd.we) is asserted
\* only while the FSM is in WAIT-SEQUENCER, after the cycle's grant and not
\* after its cmd.last.
C18_StrobesOnlyWhileSequencing ==
    ~NoStrobe => /\ fsm = "WAIT-SEQUENCER"
                 /\ taken /\ cyc_grants = 1 /\ cyc_lasts = 0

\* The Auto Refresh strobes of a cycle whose grant was delayed.
C18_Witness ==
    /\ AutoRefresh /\ fsm = "WAIT-SEQUENCER" /\ state_steps = 1 + tRP
    /\ cyc_grants = 1 /\ tprev < state_steps

---------------------------------------------------------------------------
(* C19 *)

\* C19: cmd.valid and cmd.last are never asserted in the same state; on the
\* done step of WAIT-SEQUENCER cmd.last is asserted and cmd.valid is not.
C19_ValidLastExclusive ==
    /\ ~(cmd_valid /\ cmd_last)
    /\ (fsm = "WAIT-SEQUENCER" /\ seq_done) => (cmd_last /\ ~cmd_valid)

\* cmd.last without cmd.valid, one step after a state with cmd.valid.
C19_Witness ==
    /\ cmd_last /\ ~cmd_valid /\ fsm = "WAIT-SEQUENCER"
    /\ state_steps = tRP + tRFC + 1 /\ cyc_lasts = 0

---------------------------------------------------------------------------
(* C20 *)

\* C20: in the Refresher the sequencer is idle (counter 0, done not
\* asserted) whenever the FSM is in IDLE or WAIT-CONTROLLER-GRANT, so start
\* is only ever asserted on an idle sequencer; in a sequencer on its own a
\* start asserted during a run neither restarts nor extends it: the running
\* counter equals the steps since the accepted trigger, and done comes
\* exactly when tRP+tRFC+1 steps have passed since that trigger.
C20_SequencerIdleOutsideRun ==
    /\ ~standalone =>
          /\ fsm \in {"IDLE", "WAIT-CONTROLLER-GRANT"} =>
                (counter = 0 /\ ~seq_done)
          /\ start => counter = 0
          /\ ~ignored_start
    /\ standalone =>
          /\ counter # 0 => counter = since_start
          /\ seq_done <=> since_start = tRP + tRFC + 1

\* done of a run on a sequencer on its own during which start was asserted.
C20_Witness ==
    standalone /\ seq_done /\ ignored_start /\ since_start = tRP + tRFC + 1

=============================================================================
